---- MODULE Spec2Model ----
(***************************************************************************)
(* A model of the db-query type-safety layer: Row / Rows (query.ts, held   *)
(* in src/src/async.ts lines 188-502), SyncDatabase (src/src/sync.ts) and  *)
(* AsyncDatabase (src/src/async.ts lines 30-151).                          *)
(*                                                                         *)
(* Column values are JavaScript values.  A value is a record [tag, v]:     *)
(*   tag "string"     v = the identity of the string's contents            *)
(*   tag "number"     v = the number in tenths (420 is 42, 42 is 4.2)      *)
(*   tag "bigint"     v = the integer                                      *)
(*   tag "boolean"    v = 1 for true, 0 for false                          *)
(*   tag "Uint8Array" v = the identity of the object                       *)
(*   tag "null" / "undefined"  v = 0                                       *)
(* Equality of two such records is JavaScript's ===: primitives by value,  *)
(* objects by identity.                                                    *)
(***************************************************************************)
EXTENDS Integers, Sequences, FiniteSets, TLC

VARIABLES R0, rows, iters, ret, slots

vars == <<R0, rows, iters, ret, slots>>

(* ------------------------------ bounds --------------------------------- *)
MaxCols == 2
MaxRows == 2
MaxIters == 2
MaxCalls == 1

(* --------------------------- column values ----------------------------- *)
Str(n) == [tag |-> "string", v |-> n]
Num(tenths) == [tag |-> "number", v |-> tenths]
Big(n) == [tag |-> "bigint", v |-> n]
Bool(b) == [tag |-> "boolean", v |-> b]
Bytes(id) == [tag |-> "Uint8Array", v |-> id]
Null == [tag |-> "null", v |-> 0]
Undefined == [tag |-> "undefined", v |-> 0]

\* The values a column is drawn from: a string, the numbers 4.2, 42 and
\* -7.5, a bigint, a boolean, a byte array, null and undefined.
Values ==
    {Str(1), Num(42), Num(420), Num(-75), Big(42), Bool(1), Bytes(1), Null,
     Undefined}

\* typeof value
typeof(value) ==
    IF value.tag \in {"Uint8Array", "null"} THEN "object" ELSE value.tag

\* value instanceof Uint8Array
instanceofUint8Array(value) == value.tag = "Uint8Array"

\* Number.isInteger left out: every number passes
NumberIsInteger_any(value) == value.tag = "number"

\* Number.isInteger(value), for a value whose typeof is "number"
NumberIsInteger(value) == value.tag = "number" /\ value.v % 10 = 0

\* BigInt(value), for an integral number
BigInt(value) == Big(value.v \div 10)

(* ---------------------- outcomes of a call ----------------------------- *)
\* A call returns a value or throws an error (its message stands for it).
Return(x) == [type |-> "return", value |-> x]
Throw(msg) == [type |-> "throw", error |-> msg]

(* ------------------------------- Row ----------------------------------- *)
\* new Row(result): the Row keeps a reference to the tuple it is given.
NewRow(result) == [cls |-> "Row", result |-> result]

\* get handing out a copy of a byte array instead of the stored object
get_copying(row, index) ==
    IF index \in 0 .. (Len(row.result) - 1)
    THEN LET value == row.result[index + 1] IN
         IF value.tag = "Uint8Array" THEN Bytes(value.v + 100) ELSE value
    ELSE Undefined

\* get folding an index outside the array into null
get_nullOutside(row, index) ==
    IF index \in 0 .. (Len(row.result) - 1)
    THEN row.result[index + 1]
    ELSE Null

\* Row.get: this.result[index]; an index outside the array reads undefined.
get(row, index) ==
    IF index \in 0 .. (Len(row.result) - 1)
    THEN row.result[index + 1]
    ELSE Undefined

\* stringNullable without the null arm
stringNullable_strict(row, index) ==
    LET value == get(row, index) IN
    IF typeof(value) # "string"
    THEN Throw("Not a string or null")
    ELSE Return(value)

stringNullable(row, index) ==
    LET value == get(row, index) IN
    IF typeof(value) # "string" /\ value # Null
    THEN Throw("Not a string or null")
    ELSE Return(value)

string(row, index) ==
    LET value == get(row, index) IN
    IF typeof(value) # "string"
    THEN Throw("Not a string")
    ELSE Return(value)

numberNullable(row, index) ==
    LET value == get(row, index) IN
    IF typeof(value) # "number" /\ value # Null
    THEN Throw("Not a number or null")
    ELSE Return(value)

number(row, index) ==
    LET value == get(row, index) IN
    IF typeof(value) # "number"
    THEN Throw("Not a number")
    ELSE Return(value)

bigintNullable(row, index) ==
    LET value == get(row, index) IN
    IF typeof(value) = "number" /\ NumberIsInteger(value)
    THEN Return(BigInt(value))
    ELSE IF typeof(value) # "bigint" /\ value # Null
         THEN Throw("Not an integer or null")
         ELSE Return(value)

bigint(row, index) ==
    LET value == get(row, index) IN
    IF typeof(value) = "number" /\ NumberIsInteger(value)
    THEN Return(BigInt(value))
    ELSE IF typeof(value) # "bigint"
         THEN Throw("Not an integer")
         ELSE Return(value)

\* boolean with an implicit number-to-boolean conversion
boolean_coercing(row, index) ==
    LET value == get(row, index) IN
    IF typeof(value) = "number"
    THEN Return(Bool(IF value.v = 0 THEN 0 ELSE 1))
    ELSE IF typeof(value) # "boolean"
         THEN Throw("Not a boolean")
         ELSE Return(value)

booleanNullable(row, index) ==
    LET value == get(row, index) IN
    IF typeof(value) # "boolean" /\ value # Null
    THEN Throw("Not a boolean or null")
    ELSE Return(value)

boolean(row, index) ==
    LET value == get(row, index) IN
    IF typeof(value) # "boolean"
    THEN Throw("Not a boolean")
    ELSE Return(value)

bytesNullable(row, index) ==
    LET value == get(row, index) IN
    IF ~instanceofUint8Array(value) /\ value # Null
    THEN Throw("Not an Uint8Array or null")
    ELSE Return(value)

bytes(row, index) ==
    LET value == get(row, index) IN
    IF ~instanceofUint8Array(value)
    THEN Throw("Not an Uint8Array")
    ELSE Return(value)

(* ------------------------------- Rows ---------------------------------- *)
\* new Rows(result): the Rows keeps a reference to the tuple-of-tuples.
NewRows(result) == [cls |-> "Rows", result |-> result]

\* Rows.count: this.result.length, a number
count(rs) == Num(10 * Len(rs.result))

\* rows[Symbol.iterator](): a generator that has not started.  It reads
\* this.result, by reference, each time it is advanced.
Rows_iterator(rs) == [state |-> "suspendedStart", i |-> 0, out |-> <<>>]

\* The generator walking this.result from its end
Rows_next_reversed(rs, it) ==
    IF it.i < Len(rs.result)
    THEN [state |-> "suspendedYield", i |-> it.i + 1,
          out |-> Append(it.out, NewRow(rs.result[Len(rs.result) - it.i]))]
    ELSE [state |-> "closed", i |-> it.i, out |-> it.out]

\* One next() of the generator: the for-of over this.result yields a new Row
\* for the item at the array iterator's index, or ends past the last item.
\* out is the sequence of Rows the generator has yielded so far.
Rows_next(rs, it) ==
    IF it.i < Len(rs.result)
    THEN [state |-> "suspendedYield", i |-> it.i + 1,
          out |-> Append(it.out, NewRow(rs.result[it.i + 1]))]
    ELSE [state |-> "closed", i |-> it.i, out |-> it.out]

NoIter == [state |-> "none", i |-> 0, out |-> <<>>]

(* ------------------------- the adapter (external) ---------------------- *)
\* What the facades hand to the adapter: one record per adapter call.
AdapterCall(method, statement, params) ==
    [method |-> method, statement |-> statement, params |-> params]

\* The (statement, params) pairs a caller passes.
Requests ==
    {[statement |-> "s1", params |-> <<>>],
     [statement |-> "s2", params |-> <<Num(70)>>]}

\* The errors an adapter operation fails with.
AdapterErrors == {"E1", "E2"}

\* The tuples an adapter's query answers with, and its answers: every
\* tuple-of-tuples of at most MaxRows of them.
DbTuples == {<<Num(70), Str(1)>>, <<Num(80), Str(2)>>}

RECURSIVE SeqsUpTo(_, _)
SeqsUpTo(S, n) ==
    IF n = 0 THEN {<<>>}
    ELSE LET shorter == SeqsUpTo(S, n - 1) IN
         shorter \cup {Append(q, x) : q \in {r \in shorter : Len(r) = n - 1}, x \in S}

QueryResults == SeqsUpTo(DbTuples, MaxRows)

\* The opaque values an adapter's execute answers with.
Exec(n) == [cls |-> "ExecuteResult", id |-> n]
ExecuteResults == {Exec(1), Exec(2)}

\* The outcomes of one adapter operation.
QueryOutcomes ==
    {Return(r) : r \in QueryResults} \cup {Throw(e) : e \in AdapterErrors}
ExecuteOutcomes ==
    {Return(x) : x \in ExecuteResults} \cup {Throw(e) : e \in AdapterErrors}

NoRows == "Query did not return any rows"

(* --------------------------- SyncDatabase ------------------------------ *)
\* Each operation takes a, the outcome of the adapter call it makes, and
\* gives the adapter calls it made and its own outcome.  A throw of the
\* adapter leaves the operation at once (nothing catches it).
Sync_queryOne(statement, params, a) ==
    LET calls == <<AdapterCall("query", statement, params)>> IN
    IF a.type = "throw" THEN [calls |-> calls, out |-> a]
    ELSE LET result == a.value IN
         IF Len(result) < 1
         THEN [calls |-> calls, out |-> Return(Null)]
         ELSE [calls |-> calls, out |-> Return(NewRow(result[1]))]

Sync_queryOneOrThrow(statement, params, a) ==
    LET r == Sync_queryOne(statement, params, a) IN
    IF r.out.type = "throw" THEN r
    ELSE LET row == r.out.value IN
         IF row = Null
         THEN [calls |-> r.calls, out |-> Throw(NoRows)]
         ELSE [calls |-> r.calls, out |-> Return(row)]

Sync_query(statement, params, a) ==
    LET calls == <<AdapterCall("query", statement, params)>> IN
    IF a.type = "throw" THEN [calls |-> calls, out |-> a]
    ELSE LET result == a.value IN
         [calls |-> calls, out |-> Return(NewRows(result))]

\* execute going through the adapter's query
Sync_execute_viaQuery(statement, params, a) ==
    LET calls == <<AdapterCall("query", statement, params)>> IN
    [calls |-> calls, out |-> a]

Sync_execute(statement, params, a) ==
    LET calls == <<AdapterCall("execute", statement, params)>> IN
    [calls |-> calls, out |-> a]

(* --------------------------- AsyncDatabase ----------------------------- *)
\* The state of a deferred value: none yet, pending, fulfilled (Return) or
\* rejected (Throw).
None == [type |-> "none"]
Pending == [type |-> "pending"]
Settled(p) == p.type \in {"return", "throw"}

\* What an adapter operation of the async adapter does when it is called:
\* it hands back a deferred value, or it throws before handing one back.
AsyncAdapterAnswers == {Pending} \cup {Throw(e) : e \in AdapterErrors}

\* An async function runs on its caller's stack up to its first await.  The
\* frame it leaves: the adapter calls made, the adapter's deferred value,
\* the number of awaits the frame suspended at, where it stands, and the
\* deferred value it hands to its caller.  A throw inside the function
\* rejects that deferred value.
Async_queryOne_call(statement, params, a) ==
    LET calls == <<AdapterCall("query", statement, params)>> IN
    IF a.type = "throw"
    THEN [calls |-> calls, adapter |-> a, awaits |-> 0, pc |-> "done",
          promise |-> a]
    ELSE [calls |-> calls, adapter |-> a, awaits |-> 1, pc |-> "awaitAdapter",
          promise |-> Pending]

\* queryOne wrapping the last row instead of the first
Async_queryOne_resume_last(settled) ==
    IF settled.type = "throw" THEN settled
    ELSE LET result == settled.value IN
         IF Len(result) < 1 THEN Return(Null)
         ELSE Return(NewRow(result[Len(result)]))

\* queryOne after its await: settled is the adapter's settled deferred value.
Async_queryOne_resume(settled) ==
    IF settled.type = "throw" THEN settled
    ELSE LET result == settled.value IN
         IF Len(result) < 1 THEN Return(Null) ELSE Return(NewRow(result[1]))

\* queryOneOrThrow handing on queryOne's deferred value without an await of
\* its own counted
Async_queryOneOrThrow_call_noawait(statement, params, a) ==
    LET q == Async_queryOne_call(statement, params, a) IN
    [calls |-> q.calls, adapter |-> q.adapter, awaits |-> q.awaits,
     pc |-> "awaitQueryOne", innerPc |-> q.pc, inner |-> q.promise,
     promise |-> Pending]

\* queryOneOrThrow calls queryOne, which runs to its await and hands back
\* its deferred value; queryOneOrThrow then awaits that value.
Async_queryOneOrThrow_call(statement, params, a) ==
    LET q == Async_queryOne_call(statement, params, a) IN
    [calls |-> q.calls, adapter |-> q.adapter, awaits |-> q.awaits + 1,
     pc |-> "awaitQueryOne", innerPc |-> q.pc, inner |-> q.promise,
     promise |-> Pending]

\* queryOneOrThrow without its null check
Async_queryOneOrThrow_resume_nocheck(settled) == settled

\* queryOneOrThrow after its await: settled is queryOne's deferred value.
Async_queryOneOrThrow_resume(settled) ==
    IF settled.type = "throw" THEN settled
    ELSE LET row == settled.value IN
         IF row = Null THEN Throw(NoRows) ELSE Return(row)

Async_query_call(statement, params, a) ==
    LET calls == <<AdapterCall("query", statement, params)>> IN
    IF a.type = "throw"
    THEN [calls |-> calls, adapter |-> a, awaits |-> 0, pc |-> "done",
          promise |-> a]
    ELSE [calls |-> calls, adapter |-> a, awaits |-> 1, pc |-> "awaitAdapter",
          promise |-> Pending]

\* query catching the adapter's failure and answering with no rows
Async_query_resume_swallow(settled) ==
    IF settled.type = "throw" THEN Return(NewRows(<<>>))
    ELSE LET result == settled.value IN Return(NewRows(result))

Async_query_resume(settled) ==
    IF settled.type = "throw" THEN settled
    ELSE LET result == settled.value IN Return(NewRows(result))

Async_execute_call(statement, params, a) ==
    LET calls == <<AdapterCall("execute", statement, params)>> IN
    IF a.type = "throw"
    THEN [calls |-> calls, adapter |-> a, awaits |-> 0, pc |-> "done",
          promise |-> a]
    ELSE [calls |-> calls, adapter |-> a, awaits |-> 1, pc |-> "awaitAdapter",
          promise |-> Pending]

Async_execute_resume(settled) == settled

(* ===================== the caller of Row and Rows ====================== *)
\* R0 is the tuple-of-tuples as the adapter built it (never written again);
\* rows is the Rows wrapping it; iters are the caller's iterators over rows;
\* ret is the caller's last call of count or of a Row method.
Methods ==
    {"get", "stringNullable", "string", "numberNullable", "number",
     "bigintNullable", "bigint", "booleanNullable", "boolean",
     "bytesNullable", "bytes"}

Indices == 0 .. MaxCols

Tuples == SeqsUpTo(Values, MaxCols)

\* row.<m>(index)
Invoke(m, row, index) ==
    CASE m = "get" -> Return(get(row, index))
      [] m = "stringNullable" -> stringNullable(row, index)
      [] m = "string" -> string(row, index)
      [] m = "numberNullable" -> numberNullable(row, index)
      [] m = "number" -> number(row, index)
      [] m = "bigintNullable" -> bigintNullable(row, index)
      [] m = "bigint" -> bigint(row, index)
      [] m = "booleanNullable" -> booleanNullable(row, index)
      [] m = "boolean" -> boolean(row, index)
      [] m = "bytesNullable" -> bytesNullable(row, index)
      [] m = "bytes" -> bytes(row, index)

NoRet == [method |-> "none", row |-> 0, index |-> 0, out |-> None]

\* The caller calls method m with index on the Row of the r-th tuple.
Call(r, m, index) ==
    /\ r \in 1 .. Len(rows.result)
    /\ ret' = [method |-> m, row |-> r, index |-> index,
               out |-> Invoke(m, NewRow(rows.result[r]), index)]
    /\ UNCHANGED <<R0, rows, iters, slots>>

\* The caller calls rows.count().
CallCount ==
    /\ ret' = [method |-> "count", row |-> 0, index |-> 0,
               out |-> Return(count(rows))]
    /\ UNCHANGED <<R0, rows, iters, slots>>

\* The caller asks for an iteration (for...of), as its k-th iterator; an
\* iterator that has ended may be dropped for a new one.
Iterate(k) ==
    /\ iters[k].state \in {"none", "closed"}
    /\ iters' = [iters EXCEPT ![k] = Rows_iterator(rows)]
    /\ UNCHANGED <<R0, rows, ret, slots>>

\* The caller advances its k-th iterator.
IterNext(k) ==
    /\ iters[k].state \in {"suspendedStart", "suspendedYield"}
    /\ iters' = [iters EXCEPT ![k] = Rows_next(rows, iters[k])]
    /\ UNCHANGED <<R0, rows, ret, slots>>

(* ===================== the caller of the facades ======================= *)
\* slots holds the facade calls the caller has made and still holds on to,
\* at most MaxCalls of them at a time.  A record keeps the call, the adapter
\* calls made on its behalf, the adapter's outcome (for the async adapter
\* its deferred value, and whether it handed one back at all rather than
\* throwing), the number of awaits the call's frames suspended
\* at, where its frames stand, whether the call itself threw to its caller,
\* and its outcome: for SyncDatabase what the call returned or threw, for
\* AsyncDatabase the state of the deferred value it returned.
Free ==
    [facade |-> "none", op |-> "none", statement |-> "", params |-> <<>>,
     calls |-> <<>>, adapter |-> None, deferred |-> FALSE, awaits |-> 0,
     pc |-> "free", innerPc |-> "none", inner |-> None, threw |-> FALSE,
     out |-> None]

SyncSlot(op, statement, params, a, r) ==
    [facade |-> "sync", op |-> op, statement |-> statement, params |-> params,
     calls |-> r.calls, adapter |-> a, deferred |-> FALSE, awaits |-> 0,
     pc |-> "done",
     innerPc |-> "none", inner |-> None, threw |-> (r.out.type = "throw"),
     out |-> r.out]

\* An async function never throws to its caller: it returns its deferred
\* value, already rejected if the body threw before its first await.
AsyncSlot(op, statement, params, f) ==
    [facade |-> "async", op |-> op, statement |-> statement,
     params |-> params, calls |-> f.calls, adapter |-> f.adapter,
     deferred |-> (f.adapter = Pending), awaits |-> f.awaits, pc |-> f.pc,
     innerPc |-> "none", inner |-> None, threw |-> FALSE, out |-> f.promise]

SyncQueryOne(k, statement, params, a) ==
    /\ slots[k] = Free
    /\ slots' = [slots EXCEPT ![k] = SyncSlot("queryOne", statement, params, a,
                                   Sync_queryOne(statement, params, a))]
    /\ UNCHANGED <<R0, rows, iters, ret>>

SyncQueryOneOrThrow(k, statement, params, a) ==
    /\ slots[k] = Free
    /\ slots' = [slots EXCEPT ![k] =
                    SyncSlot("queryOneOrThrow", statement, params, a,
                             Sync_queryOneOrThrow(statement, params, a))]
    /\ UNCHANGED <<R0, rows, iters, ret>>

SyncQuery(k, statement, params, a) ==
    /\ slots[k] = Free
    /\ slots' = [slots EXCEPT ![k] = SyncSlot("query", statement, params, a,
                                   Sync_query(statement, params, a))]
    /\ UNCHANGED <<R0, rows, iters, ret>>

SyncExecute(k, statement, params, a) ==
    /\ slots[k] = Free
    /\ slots' = [slots EXCEPT ![k] = SyncSlot("execute", statement, params, a,
                                   Sync_execute(statement, params, a))]
    /\ UNCHANGED <<R0, rows, iters, ret>>

AsyncQueryOne(k, statement, params, a) ==
    /\ slots[k] = Free
    /\ slots' = [slots EXCEPT ![k] =
                    AsyncSlot("queryOne", statement, params,
                              Async_queryOne_call(statement, params, a))]
    /\ UNCHANGED <<R0, rows, iters, ret>>

AsyncQueryOneOrThrow(k, statement, params, a) ==
    /\ slots[k] = Free
    /\ slots' = [slots EXCEPT ![k] =
                    LET f == Async_queryOneOrThrow_call(statement, params, a) IN
                    [AsyncSlot("queryOneOrThrow", statement, params, f)
                       EXCEPT !.innerPc = f.innerPc, !.inner = f.inner]]
    /\ UNCHANGED <<R0, rows, iters, ret>>

AsyncQuery(k, statement, params, a) ==
    /\ slots[k] = Free
    /\ slots' = [slots EXCEPT ![k] =
                    AsyncSlot("query", statement, params,
                              Async_query_call(statement, params, a))]
    /\ UNCHANGED <<R0, rows, iters, ret>>

AsyncExecute(k, statement, params, a) ==
    /\ slots[k] = Free
    /\ slots' = [slots EXCEPT ![k] =
                    AsyncSlot("execute", statement, params,
                              Async_execute_call(statement, params, a))]
    /\ UNCHANGED <<R0, rows, iters, ret>>

\* The deferred value of the adapter's query settles: fulfilled with its
\* answer or rejected with its error.
AdapterQuerySettle(k, o) ==
    /\ slots[k].facade = "async" /\ slots[k].op # "execute"
    /\ slots[k].adapter = Pending
    /\ slots' = [slots EXCEPT ![k].adapter = o]
    /\ UNCHANGED <<R0, rows, iters, ret>>

\* The deferred value of the adapter's execute settles.
AdapterExecuteSettle(k, o) ==
    /\ slots[k].facade = "async" /\ slots[k].op = "execute"
    /\ slots[k].adapter = Pending
    /\ slots' = [slots EXCEPT ![k].adapter = o]
    /\ UNCHANGED <<R0, rows, iters, ret>>

\* The frame that awaits the adapter's deferred value runs on from its
\* await once that value has settled.
ResumeQueryOne(k) ==
    /\ slots[k].facade = "async" /\ Settled(slots[k].adapter)
    /\ \/ /\ slots[k].op = "queryOne" /\ slots[k].pc = "awaitAdapter"
          /\ slots' = [slots EXCEPT
                          ![k].pc = "done",
                          ![k].out = Async_queryOne_resume(slots[k].adapter)]
       \/ /\ slots[k].op = "queryOneOrThrow"
          /\ slots[k].innerPc = "awaitAdapter"
          /\ slots' = [slots EXCEPT
                          ![k].innerPc = "done",
                          ![k].inner = Async_queryOne_resume(slots[k].adapter)]
    /\ UNCHANGED <<R0, rows, iters, ret>>

\* queryOneOrThrow runs on from its await once queryOne's deferred value
\* has settled.
ResumeQueryOneOrThrow(k) ==
    /\ slots[k].facade = "async" /\ slots[k].op = "queryOneOrThrow"
    /\ slots[k].pc = "awaitQueryOne" /\ Settled(slots[k].inner)
    /\ slots' = [slots EXCEPT
                    ![k].pc = "done",
                    ![k].out = Async_queryOneOrThrow_resume(slots[k].inner)]
    /\ UNCHANGED <<R0, rows, iters, ret>>

ResumeQuery(k) ==
    /\ slots[k].facade = "async" /\ slots[k].op = "query"
    /\ slots[k].pc = "awaitAdapter" /\ Settled(slots[k].adapter)
    /\ slots' = [slots EXCEPT
                    ![k].pc = "done",
                    ![k].out = Async_query_resume(slots[k].adapter)]
    /\ UNCHANGED <<R0, rows, iters, ret>>

ResumeExecute(k) ==
    /\ slots[k].facade = "async" /\ slots[k].op = "execute"
    /\ slots[k].pc = "awaitAdapter" /\ Settled(slots[k].adapter)
    /\ slots' = [slots EXCEPT
                    ![k].pc = "done",
                    ![k].out = Async_execute_resume(slots[k].adapter)]
    /\ UNCHANGED <<R0, rows, iters, ret>>

\* The caller lets go of a call that has finished.
Release(k) ==
    /\ slots[k].pc = "done"
    /\ slots' = [slots EXCEPT ![k] = Free]
    /\ UNCHANGED <<R0, rows, iters, ret>>

(* ========================== specifications ============================= *)
NoIters == [k \in 1 .. MaxIters |-> NoIter]
NoSlots == [k \in 1 .. MaxCalls |-> Free]

\* Row: a Rows over one tuple, any tuple of at most MaxCols values.
InitRow ==
    /\ R0 \in {<<t>> : t \in Tuples}
    /\ rows = NewRows(R0)
    /\ iters = NoIters
    /\ ret = NoRet
    /\ slots = NoSlots

NextRow ==
    \/ \E m \in Methods, index \in Indices : Call(1, m, index)
    \/ CallCount
    \/ Iterate(1)
    \/ IterNext(1)

SpecRow == InitRow /\ [][NextRow]_vars

\* Rows: the Rows that SyncDatabase.query hands back for any answer of the
\* adapter.
InitRows ==
    /\ R0 \in QueryResults
    /\ \E q \in Requests :
           rows = Sync_query(q.statement, q.params, Return(R0)).out.value
    /\ iters = NoIters
    /\ ret = NoRet
    /\ slots = NoSlots

NextRows ==
    \/ CallCount
    \/ \E k \in 1 .. MaxIters : Iterate(k)
    \/ \E k \in 1 .. MaxIters : IterNext(k)

SpecRows == InitRows /\ [][NextRows]_vars

\* The facades: no call made yet.
InitDb ==
    /\ R0 = <<>>
    /\ rows = NewRows(R0)
    /\ iters = NoIters
    /\ ret = NoRet
    /\ slots = NoSlots

NextDb ==
    \E k \in 1 .. MaxCalls :
       \/ \E q \in Requests :
             \/ \E a \in QueryOutcomes :
                   \/ SyncQueryOne(k, q.statement, q.params, a)
                   \/ SyncQueryOneOrThrow(k, q.statement, q.params, a)
                   \/ SyncQuery(k, q.statement, q.params, a)
             \/ \E a \in ExecuteOutcomes :
                   SyncExecute(k, q.statement, q.params, a)
             \/ \E a \in AsyncAdapterAnswers :
                   \/ AsyncQueryOne(k, q.statement, q.params, a)
                   \/ AsyncQueryOneOrThrow(k, q.statement, q.params, a)
                   \/ AsyncQuery(k, q.statement, q.params, a)
                   \/ AsyncExecute(k, q.statement, q.params, a)
       \/ \E o \in QueryOutcomes : AdapterQuerySettle(k, o)
       \/ \E o \in ExecuteOutcomes : AdapterExecuteSettle(k, o)
       \/ ResumeQueryOne(k)
       \/ ResumeQueryOneOrThrow(k)
       \/ ResumeQuery(k)
       \/ ResumeExecute(k)
       \/ Release(k)

SpecDb == InitDb /\ [][NextDb]_vars

(* ============================== claims ================================= *)
TypeMismatch ==
    {"Not a string or null", "Not a string", "Not a number or null",
     "Not a number", "Not an integer or null", "Not an integer",
     "Not a boolean or null", "Not a boolean", "Not an Uint8Array or null",
     "Not an Uint8Array"}

Fails(out) == out.type = "throw" /\ out.error \in TypeMismatch

\* The tag of the values an accessor is for.
TagOf(m) ==
    CASE m \in {"string", "stringNullable"} -> "string"
      [] m \in {"number", "numberNullable"} -> "number"
      [] m \in {"bigint", "bigintNullable"} -> "bigint"
      [] m \in {"boolean", "booleanNullable"} -> "boolean"
      [] m \in {"bytes", "bytesNullable"} -> "Uint8Array"

NonNullKinds == {"string", "number", "bigint", "boolean", "Uint8Array"}
NonNullable == {"string", "number", "bigint", "boolean", "bytes"}
Nullable ==
    {"stringNullable", "numberNullable", "bigintNullable", "booleanNullable",
     "bytesNullable"}

\* The last call was a Row method on a position inside the tuple.
InRange == ret.row \in 1 .. Len(R0) /\ ret.index \in 0 .. (Len(R0[ret.row]) - 1)
\* The value the adapter stored at the position of the last call.
Stored == R0[ret.row][ret.index + 1]

\* C1: on a non-null value of kind K, each of string, number, boolean and
\* bytes returns exactly the stored value if K is its kind and fails with a
\* type mismatch otherwise; on null it fails; and no non-nullable accessor
\* (bigint included, any index) ever returns null or undefined.
C1_Theorem ==
    /\ (ret.method \in {"string", "number", "boolean", "bytes"} /\ InRange) =>
          /\ Stored.tag \in NonNullKinds =>
                IF Stored.tag = TagOf(ret.method)
                THEN ret.out = Return(Stored)
                ELSE Fails(ret.out)
          /\ Stored = Null => Fails(ret.out)
    /\ ret.method \in NonNullable =>
          \/ Fails(ret.out)
          \/ ret.out.type = "return" /\ ret.out.value \notin {Null, Undefined}

\* boolean(i) was called on a numeric value, and failed.
C1_Witness ==
    /\ ret.method = "boolean" /\ InRange
    /\ Stored.tag = "number"
    /\ Fails(ret.out)

\* C2 as written: every <type>Nullable(i), bigintNullable included, returns
\* null on null, the value on a value of its kind, and fails with a type
\* mismatch on a value that is neither of its kind nor null/undefined; the
\* non-nullable accessor fails on null.
C2_Original ==
    /\ (ret.method \in Nullable /\ InRange) =>
          /\ Stored = Null => ret.out = Return(Null)
          /\ Stored.tag = TagOf(ret.method) => ret.out = Return(Stored)
          /\ (Stored.tag \in NonNullKinds /\ Stored.tag # TagOf(ret.method)) =>
                Fails(ret.out)
    /\ (ret.method \in NonNullable /\ InRange /\ Stored = Null) => Fails(ret.out)

\* C2 amended: as C2, except that bigintNullable(i) does not fail on a number
\* with an integral value: it returns the bigint equal to it.
C2_Theorem ==
    /\ (ret.method \in Nullable /\ InRange) =>
          /\ Stored = Null => ret.out = Return(Null)
          /\ Stored.tag = TagOf(ret.method) => ret.out = Return(Stored)
          /\ (Stored.tag \in NonNullKinds /\ Stored.tag # TagOf(ret.method)) =>
                IF ret.method = "bigintNullable" /\ Stored.tag = "number"
                   /\ Stored.v % 10 = 0
                THEN /\ ret.out.type = "return"
                     /\ ret.out.value.tag = "bigint"
                     /\ 10 * ret.out.value.v = Stored.v
                ELSE Fails(ret.out)
    /\ (ret.method \in NonNullable /\ InRange /\ Stored = Null) => Fails(ret.out)

\* stringNullable(i) was called on null, and returned null.
C2_Witness ==
    /\ ret.method = "stringNullable" /\ InRange
    /\ Stored = Null
    /\ ret.out = Return(Null)

\* C3: bigint(i) and bigintNullable(i) return the bigint equal to a stored
\* number with an integral value, return a stored bigint unchanged, and fail
\* with a type mismatch on a non-integral number and on every other kind;
\* they differ only on null, where bigintNullable returns null and bigint
\* fails.
C3_Theorem ==
    (ret.method \in {"bigint", "bigintNullable"} /\ InRange) =>
        CASE Stored.tag = "number" /\ Stored.v % 10 = 0 ->
                 /\ ret.out.type = "return"
                 /\ ret.out.value.tag = "bigint"
                 /\ 10 * ret.out.value.v = Stored.v
          [] Stored.tag = "bigint" -> ret.out = Return(Stored)
          [] Stored = Null ->
                 IF ret.method = "bigintNullable"
                 THEN ret.out = Return(Null)
                 ELSE Fails(ret.out)
          [] OTHER -> Fails(ret.out)

\* bigint(i) was called on the number 42 and returned the bigint 42.
C3_Witness ==
    /\ ret.method = "bigint" /\ InRange
    /\ Stored = Num(420)
    /\ ret.out = Return(Big(42))

\* C7: count() is the number of tuples the adapter returned; every iterator
\* yields, in the adapter's order, Rows backed by R0[1], R0[2], ..., and
\* has yielded exactly count() of them when it ends; iterators do not
\* consume the Rows: each one, whenever it was started and however the
\* iterators are interleaved, starts from the first tuple, and the backing
\* tuple-of-tuples and count() stay as they were.
C7_Theorem ==
    /\ rows.result = R0
    /\ ret.method = "count" => ret.out = Return(Num(10 * Len(R0)))
    /\ \A k \in 1 .. MaxIters :
          LET it == iters[k] IN
          /\ Len(it.out) <= Len(R0)
          /\ \A j \in 1 .. Len(it.out) : it.out[j] = NewRow(R0[j])
          /\ it.state = "suspendedStart" => it.out = <<>>
          /\ it.state = "suspendedYield" => Len(it.out) >= 1
          /\ it.state = "closed" => Len(it.out) = Len(R0)

\* Over two different tuples: one iterator has ended after yielding both
\* Rows, a second one stands after its first Row, and count() was called
\* after that.
C7_Witness ==
    /\ Len(R0) = 2 /\ R0[1] # R0[2]
    /\ iters[1].state = "closed" /\ Len(iters[1].out) = 2
    /\ iters[2].state = "suspendedYield" /\ Len(iters[2].out) = 1
    /\ ret.method = "count"

\* C8: get(i) returns the very element t[i] of the tuple the Row was built
\* from, for every i inside it; and whatever calls were made (get, typed
\* accessors that returned or failed, count, iteration) the backing tuple
\* and tuple-of-tuples are as the adapter built them, so that making the
\* last call again gives the outcome it gave.
C8_Theorem ==
    /\ rows.result = R0
    /\ (ret.method = "get" /\ InRange) => ret.out = Return(Stored)
    /\ ret.method \in Methods =>
          ret.out = Invoke(ret.method, NewRow(rows.result[ret.row]), ret.index)
    /\ \A j \in 1 .. Len(iters[1].out) : iters[1].out[j] = NewRow(R0[j])

\* After an iteration that ran to its end, get(i) handed out the stored
\* byte array itself.
C8_Witness ==
    /\ iters[1].state = "closed" /\ Len(iters[1].out) = 1
    /\ ret.method = "get" /\ InRange
    /\ Stored = Bytes(1)
    /\ ret.out = Return(Bytes(1))

\* C4: in both facades, a queryOne whose adapter query answered R yields
\* null if R has no rows and otherwise a Row backed by R[0]; rows after the
\* first change nothing and cause no error.
C4_Theorem ==
    \A k \in 1 .. MaxCalls :
       LET s == slots[k] IN
       (s.op = "queryOne" /\ s.pc = "done" /\ s.adapter.type = "return") =>
           /\ ~s.threw
           /\ IF Len(s.adapter.value) = 0
              THEN s.out = Return(Null)
              ELSE s.out = Return(NewRow(s.adapter.value[1]))

\* An async queryOne resolved to the Row of the first of two different
\* tuples.
C4_Witness ==
    \E k \in 1 .. MaxCalls :
       LET s == slots[k] IN
       /\ s.facade = "async" /\ s.op = "queryOne" /\ s.pc = "done"
       /\ s.adapter.type = "return" /\ Len(s.adapter.value) = 2
       /\ s.adapter.value[1] # s.adapter.value[2]
       /\ s.out = Return(NewRow(s.adapter.value[1]))

\* C5: queryOneOrThrow fails with NoRows exactly when the adapter's query
\* answered with zero rows; when it answered with rows it yields the Row
\* queryOne yields.  SyncDatabase throws NoRows from the call; an
\* AsyncDatabase call never throws: it returns a deferred value, pending
\* until the call has run to its end, and NoRows is that value's rejection.
C5_Theorem ==
    \A k \in 1 .. MaxCalls :
       LET s == slots[k] IN
       s.op = "queryOneOrThrow" =>
           /\ s.facade = "async" =>
                 /\ ~s.threw
                 /\ s.pc # "done" => s.out = Pending
           /\ s.pc = "done" =>
                 /\ (s.out = Throw(NoRows)) <=>
                       (s.adapter.type = "return" /\ Len(s.adapter.value) = 0)
                 /\ (s.adapter.type = "return" /\ Len(s.adapter.value) > 0) =>
                       s.out = Return(NewRow(s.adapter.value[1]))
                 /\ s.facade = "sync" => (s.threw <=> s.out.type = "throw")

\* An async queryOneOrThrow, whose adapter answered with zero rows, returned
\* a deferred value that was rejected with NoRows.
C5_Witness ==
    \E k \in 1 .. MaxCalls :
       LET s == slots[k] IN
       /\ s.facade = "async" /\ s.op = "queryOneOrThrow" /\ s.pc = "done"
       /\ s.adapter = Return(<<>>)
       /\ ~s.threw /\ s.out = Throw(NoRows)

\* C6: in both facades execute(statement, params) calls the adapter's
\* execute exactly once, with that statement and those params, calls the
\* adapter's query never, and yields exactly what the adapter returned.
C6_Theorem ==
    \A k \in 1 .. MaxCalls :
       LET s == slots[k] IN
       s.op = "execute" =>
           /\ s.calls = <<AdapterCall("execute", s.statement, s.params)>>
           /\ (s.pc = "done" /\ s.adapter.type = "return") =>
                 /\ ~s.threw
                 /\ s.out = s.adapter

\* A sync execute with a parameter returned the adapter's second result.
C6_Witness ==
    \E k \in 1 .. MaxCalls :
       LET s == slots[k] IN
       /\ s.facade = "sync" /\ s.op = "execute" /\ s.pc = "done"
       /\ s.params = <<Num(70)>>
       /\ s.out = Return(Exec(2))

\* C9: a facade operation whose adapter operation failed with E fails with
\* that E (thrown by SyncDatabase, the rejection of the deferred value of
\* AsyncDatabase) and yields no Row or Rows; no operation calls the adapter
\* a second time; and the only failure that does not come from the adapter
\* is NoRows from queryOneOrThrow.
C9_Theorem ==
    \A k \in 1 .. MaxCalls :
       LET s == slots[k] IN
       /\ s.pc # "free" => Len(s.calls) = 1
       /\ s.pc = "done" =>
             /\ s.adapter.type = "throw" =>
                   /\ s.out = s.adapter
                   /\ s.threw <=> s.facade = "sync"
             /\ (s.out.type = "throw" /\ s.adapter.type # "throw") =>
                   /\ s.op = "queryOneOrThrow"
                   /\ s.out = Throw(NoRows)

\* An async query, whose adapter handed back a deferred value that was
\* rejected with E2, was rejected with E2.
C9_Witness ==
    \E k \in 1 .. MaxCalls :
       LET s == slots[k] IN
       /\ s.facade = "async" /\ s.op = "query" /\ s.pc = "done"
       /\ s.deferred /\ s.adapter = Throw("E2")
       /\ ~s.threw /\ s.out = Throw("E2")

\* C10 as written, read in its most favourable way (the adapter handed back
\* a deferred value): every async operation that has settled made one
\* adapter call and suspended at exactly one await, queryOneOrThrow too.
C10_Original ==
    \A k \in 1 .. MaxCalls :
       LET s == slots[k] IN
       (s.facade = "async" /\ s.pc = "done" /\ s.deferred) =>
           /\ Len(s.calls) = 1
           /\ s.awaits = 1

\* C10 amended: every async operation makes exactly one adapter call;
\* query, queryOne and execute suspend once, at the await of the adapter's
\* deferred value, and queryOneOrThrow suspends twice: at that await inside
\* queryOne and at its own await of queryOne's deferred value.  (An adapter
\* that throws instead of handing back a deferred value takes the first of
\* these away.)
C10_Theorem ==
    \A k \in 1 .. MaxCalls :
       LET s == slots[k] IN
       (s.facade = "async" /\ s.pc = "done") =>
           /\ Len(s.calls) = 1
           /\ s.awaits = (IF s.deferred THEN 1 ELSE 0)
                          + (IF s.op = "queryOneOrThrow" THEN 1 ELSE 0)

\* An async queryOneOrThrow over a deferred adapter answer has settled
\* after two suspensions and one adapter call.
C10_Witness ==
    \E k \in 1 .. MaxCalls :
       LET s == slots[k] IN
       /\ s.facade = "async" /\ s.op = "queryOneOrThrow" /\ s.pc = "done"
       /\ s.deferred /\ s.awaits = 2 /\ Len(s.calls) = 1
       /\ s.out.type = "return"

\* The last call was a Row method on a position outside the tuple.
OutOfRange ==
    /\ ret.method \in Methods
    /\ ret.row \in 1 .. Len(R0)
    /\ ret.index \notin 0 .. (Len(R0[ret.row]) - 1)

\* What method m gives on a position that holds null / holds undefined.
OnNull(m) == Invoke(m, NewRow(<<Null>>), 0)
OnUndefined(m) == Invoke(m, NewRow(<<Undefined>>), 0)

\* C11 as written: with an index outside the tuple, every accessor (get,
\* each <type> and each <type>Nullable) gives the outcome it gives on a
\* position that holds null.
C11_Original == OutOfRange => ret.out = OnNull(ret.method)

\* C11 amended: an index outside the tuple is treated as a position that
\* holds undefined, not null.  get returns undefined (on null: null); each
\* <type> fails with a type mismatch, which is also its outcome on null;
\* each <type>Nullable fails with a type mismatch, whereas on null it
\* returns null.
C11_Theorem ==
    OutOfRange =>
        /\ ret.out = OnUndefined(ret.method)
        /\ CASE ret.method = "get" ->
                    /\ ret.out = Return(Undefined)
                    /\ OnNull(ret.method) = Return(Null)
             [] ret.method \in NonNullable ->
                    /\ Fails(ret.out)
                    /\ ret.out = OnNull(ret.method)
             [] ret.method \in Nullable ->
                    /\ Fails(ret.out)
                    /\ OnNull(ret.method) = Return(Null)

\* On the tuple [null], stringNullable(1), one past its end, failed.
C11_Witness ==
    /\ R0 = << <<Null>> >>
    /\ ret.method = "stringNullable" /\ ret.row = 1 /\ ret.index = 1
    /\ Fails(ret.out)

====
